---- MODULE Spec2Model ----
(***************************************************************************)
(* A model of the stack-distance crate: the canonical trace enumerator     *)
(* TraceIter (src/src/trace.rs, 95-174) and the analyses of a Trace        *)
(* (src/src/trace.rs, 18-74), with the driver's comparison                 *)
(* (src/src/main.rs, 5-12).                                                *)
(*                                                                         *)
(* A Vec is a sequence; the code's indices are 0-based, so At(s, i) reads  *)
(* s[i] of the code.  An Option is a sequence of length at most one: None  *)
(* is << >> and Some(x) is << x >>.                                        *)
(***************************************************************************)
EXTENDS Integers, Sequences, FiniteSets, TLC

\* ------------------------------------------------------------------ bounds
\* Largest trace_size handed to TraceIter::new.
MaxN == 5
\* Largest number of next() calls made on one TraceIter.
MaxCalls == 56
\* Longest trace handed to Trace::from.
MaxLen == 5
\* Ordinary symbols of an analysed trace are 0..MaxSym.
MaxSym == 3
\* Width in bits of the symbol type (u32 in the source, scaled down).
SymBits == 3

\* ------------------------------------------------------------- Vec, Option
None == << >>
Some(x) == << x >>
IsSome(o) == Len(o) = 1
Unwrap(o) == o[1]

At(s, i) == s[i + 1]
Indices(s) == 0 .. (Len(s) - 1)
Range(s) == { s[k] : k \in 1 .. Len(s) }

\* Iterator::position: the index of the first element equal to x.
Position(s, x) ==
    IF \E k \in Indices(s) : At(s, k) = x
    THEN Some(CHOOSE k \in Indices(s) :
                 /\ At(s, k) = x
                 /\ \A j \in Indices(s) : At(s, j) = x => k <= j)
    ELSE None

\* Itertools::unique: the distinct elements in order of first occurrence.
RECURSIVE Unique(_)
Unique(s) ==
    IF s = << >> THEN << >>
    ELSE LET front == SubSeq(s, 1, Len(s) - 1)
             last  == s[Len(s)]
         IN IF last \in Range(front) THEN Unique(front)
            ELSE Append(Unique(front), last)

\* vec![v; n]
Repeat(v, n) == [k \in 1 .. n |-> v]

\* ------------------------------------------------------------- TraceIter
VARIABLES trace_size, next, ret, emitted, calls

itervars == << trace_size, next, ret, emitted, calls >>

\* TraceIter::new
TraceIterNew(n) == Some(Repeat(0, n))

\* SetAndReset that resets every other element, not only those after i.
SetAndReset_ResetsAll(nx, i, v) ==
    [k \in 1 .. Len(nx) |-> IF k - 1 = i THEN v ELSE 0]

\* SetAndReset that resets from i + 2 on, leaving the element after i.
SetAndReset_SkipsOne(nx, i, v) ==
    [k \in 1 .. Len(nx) |-> IF k - 1 <= i + 1
                            THEN (IF k - 1 = i THEN v ELSE nx[k])
                            ELSE 0]

\* SetAndReset without the reset of the elements after i.
SetAndReset_NoReset(nx, i, v) ==
    [k \in 1 .. Len(nx) |-> IF k - 1 = i THEN v ELSE nx[k]]

\* next[i] = v, then every element after i is reset to 0.
SetAndReset(nx, i, v) ==
    [k \in 1 .. Len(nx) |-> IF k - 1 < i THEN nx[k]
                            ELSE IF k - 1 = i THEN v ELSE 0]

\* RunawayGuard with the test left out.
RunawayGuard_Absent(n, prev) == TRUE

\* The test of the runaway guard, `n <= &next[i - 1]`.
RunawayGuard(n, prev) == n <= prev

\* The body of `for (i, n) in next.clone().iter().enumerate().rev()`, from
\* index i downwards; the value is self.next when the loop is left.
RECURSIVE Scan(_, _, _)
Scan(nx, current_symbols, i) ==
    IF i < 0 THEN Some(nx)
    ELSE
      LET n == At(nx, i)
          current_symbol_index == Unwrap(Position(current_symbols, n))
      IN IF current_symbol_index = Len(current_symbols) - 1
         THEN IF Unwrap(Position(nx, n)) # i
              THEN Some(SetAndReset(nx, i, n + 1))
              ELSE Scan(nx, current_symbols, i - 1)
         ELSE IF i = 0
              THEN None
              ELSE IF RunawayGuard(n, At(nx, i - 1))
                   THEN Some(SetAndReset(nx, i,
                               At(current_symbols, current_symbol_index + 1)))
                   ELSE Scan(nx, current_symbols, i - 1)

\* Advance that re-arms an exhausted enumerator with an empty buffer.
Advance_Rearms(nxt) ==
    IF IsSome(nxt)
    THEN Scan(Unwrap(nxt), Unique(Unwrap(nxt)), Len(Unwrap(nxt)) - 1)
    ELSE Some(<< >>)

\* The value of self.next after one call of next().
Advance(nxt) ==
    IF IsSome(nxt)
    THEN Scan(Unwrap(nxt), Unique(Unwrap(nxt)), Len(Unwrap(nxt)) - 1)
    ELSE None

\* NextCall returning self.next as it is after the step, not the clone taken
\* on entry.
NextCall_ReturnsSuccessor ==
    /\ calls < MaxCalls
    /\ ret' = Advance(next)
    /\ next' = Advance(next)
    /\ emitted' = IF IsSome(Advance(next))
                  THEN Append(emitted, Unwrap(Advance(next)))
                  ELSE emitted
    /\ calls' = calls + 1
    /\ UNCHANGED trace_size

\* Iterator::next of TraceIter: returns the clone of self.next taken on entry
\* and moves self.next to its successor.
NextCall ==
    /\ calls < MaxCalls
    /\ ret' = next
    /\ next' = Advance(next)
    /\ emitted' = IF IsSome(next) THEN Append(emitted, Unwrap(next))
                  ELSE emitted
    /\ calls' = calls + 1
    /\ UNCHANGED trace_size

\* ------------------------------------------------------------------ Trace
VARIABLES trace, pc, cursor, stack, out, stack_distances, infinities,
          frequencies

tracevars == << trace, pc, cursor, stack, out, stack_distances, infinities,
                frequencies >>

vars == << itervars, tracevars >>

\* The largest value of the symbol type.
SymMax == 2 ^ SymBits - 1

\* `n + 1` on the symbol type.  The release build wraps; the debug build
\* panics where the sum does not fit, which is where the wrapped size makes
\* the first indexing of freqs panic as well.
AddSym(a, b) == (a + b) % (2 ^ SymBits)

RECURSIVE MaxOf(_)
MaxOf(S) ==
    LET x == CHOOSE y \in S : TRUE
    IN IF S = {x} THEN x
       ELSE LET m == MaxOf(S \ {x}) IN IF x > m THEN x ELSE m

\* Vec::remove(k) and Vec::push(x)
Remove(s, k) == SubSeq(s, 1, k) \o SubSeq(s, k + 2, Len(s))
Push(s, x) == Append(s, x)

\* StackAccess that reads the stack left-to-right: the distance is the
\* index of curr, not its depth below the top.
StackAccess_LeftToRight(stk, curr) ==
    LET position == Position(stk, curr)
    IN [ distance |-> IF IsSome(position)
                      THEN Some(Unwrap(position))
                      ELSE None,
         stack |-> Push(IF IsSome(position)
                        THEN Remove(stk, Unwrap(position))
                        ELSE stk, curr) ]

\* StackAccess that leaves the earlier entry of curr on the stack.
StackAccess_NoRemove(stk, curr) ==
    LET position == Position(stk, curr)
    IN [ distance |-> IF IsSome(position)
                      THEN Some(Len(stk) - Unwrap(position) - 1)
                      ELSE None,
         stack |-> Push(stk, curr) ]

\* StackAccess that pushes curr only when it was not on the stack.
StackAccess_PushOnMiss(stk, curr) ==
    LET position == Position(stk, curr)
    IN [ distance |-> IF IsSome(position)
                      THEN Some(Len(stk) - Unwrap(position) - 1)
                      ELSE None,
         stack |-> IF IsSome(position)
                   THEN Remove(stk, Unwrap(position))
                   ELSE Push(stk, curr) ]

\* One iteration of the loop of stack_distance on the symbol curr: the
\* distance recorded for it and the stack afterwards.
StackAccess(stk, curr) ==
    LET position == Position(stk, curr)
    IN [ distance |-> IF IsSome(position)
                      THEN Some(Len(stk) - Unwrap(position) - 1)
                      ELSE None,
         stack |-> Push(IF IsSome(position)
                        THEN Remove(stk, Unwrap(position))
                        ELSE stk, curr) ]

\* distances.iter().flatten().max()
MaxDistance(distances) ==
    LET finite == { Unwrap(distances[k]) :
                      k \in { j \in 1 .. Len(distances) : IsSome(distances[j]) } }
    IN IF finite = {} THEN None ELSE Some(MaxOf(finite))

\* The loop `for i in distances` of stack_distance_histogram, from the
\* k-th distance on.
RECURSIVE Tally(_, _, _, _)
Tally(freqs, infs, distances, k) ==
    IF k > Len(distances) THEN [ freqs |-> freqs, infinities |-> infs ]
    ELSE IF IsSome(distances[k])
         THEN Tally([freqs EXCEPT ![Unwrap(distances[k]) + 1] = @ + 1],
                    infs, distances, k + 1)
         ELSE Tally(freqs, infs + 1, distances, k + 1)

\* StackDistanceHistogram with one slot too many in freqs.
StackDistanceHistogram_ExtraSlot(distances) ==
    LET max == MaxDistance(distances)
        freqs == IF IsSome(max) THEN Repeat(0, Unwrap(max) + 2) ELSE << >>
    IN Tally(freqs, 0, distances, 1)

\* stack_distance_histogram, given the result of stack_distance
StackDistanceHistogram(distances) ==
    LET max == MaxDistance(distances)
        freqs == IF IsSome(max) THEN Repeat(0, Unwrap(max) + 1) ELSE << >>
    IN Tally(freqs, 0, distances, 1)

\* Count that marks a symbol as seen instead of counting it.
RECURSIVE Count_MarksSeen(_, _, _)
Count_MarksSeen(freqs, t, k) ==
    IF k > Len(t) THEN [ panic |-> FALSE, freqs |-> freqs ]
    ELSE IF t[k] >= Len(freqs) THEN [ panic |-> TRUE, freqs |-> freqs ]
         ELSE Count_MarksSeen([freqs EXCEPT ![t[k] + 1] = 1], t, k + 1)

\* The loop `for i in &self.trace` of frequency_histogram, from the k-th
\* symbol on; indexing past the end of freqs panics.
RECURSIVE Count(_, _, _)
Count(freqs, t, k) ==
    IF k > Len(t) THEN [ panic |-> FALSE, freqs |-> freqs ]
    ELSE IF t[k] >= Len(freqs) THEN [ panic |-> TRUE, freqs |-> freqs ]
         ELSE Count([freqs EXCEPT ![t[k] + 1] = @ + 1], t, k + 1)

\* FrequencyHistogram with one slot too many in freqs.
FrequencyHistogram_ExtraSlot(t) ==
    LET size == IF t = << >> THEN 0 ELSE AddSym(MaxOf(Range(t)), 1) + 1
    IN Count(Repeat(0, size), t, 1)

\* frequency_histogram
FrequencyHistogram(t) ==
    LET size == IF t = << >> THEN 0 ELSE AddSym(MaxOf(Range(t)), 1)
    IN Count(Repeat(0, size), t, 1)

\* One iteration of `for (i, curr) in self.trace.iter().enumerate()`.
StackDistanceStep ==
    /\ pc = "stack_distance"
    /\ cursor < Len(trace)
    /\ LET access == StackAccess(stack, At(trace, cursor))
       IN /\ out' = [out EXCEPT ![cursor + 1] = access.distance]
          /\ stack' = access.stack
    /\ cursor' = cursor + 1
    /\ UNCHANGED << trace, pc, stack_distances, infinities, frequencies >>

\* stack_distance returns out and stack_distance_histogram tallies it.
StackDistanceHistogramCall ==
    /\ pc = "stack_distance"
    /\ cursor = Len(trace)
    /\ LET histogram == StackDistanceHistogram(out)
       IN /\ stack_distances' = histogram.freqs
          /\ infinities' = histogram.infinities
    /\ pc' = "frequency_histogram"
    /\ UNCHANGED << trace, cursor, stack, out, frequencies >>

\* frequency_histogram, as compare calls it.
FrequencyHistogramCall ==
    /\ pc = "frequency_histogram"
    /\ LET result == FrequencyHistogram(trace)
       IN IF result.panic
          THEN pc' = "panic" /\ UNCHANGED frequencies
          ELSE pc' = "compare" /\ frequencies' = result.freqs
    /\ UNCHANGED << trace, cursor, stack, out, stack_distances, infinities >>

\* frequencies.iter().filter(|&&n| n != 0).count()
NonZeroCount(freqs) == Cardinality({ k \in 1 .. Len(freqs) : freqs[k] # 0 })

\* The assert_eq! of compare.
Compare ==
    /\ pc = "compare"
    /\ pc' = IF infinities = NonZeroCount(frequencies) THEN "done" ELSE "panic"
    /\ UNCHANGED << trace, cursor, stack, out, stack_distances, infinities,
                    frequencies >>

\* -------------------------------------------------------- specifications
\* No TraceIter has been constructed.
NoIter ==
    /\ trace_size = 0
    /\ next = None
    /\ ret = None
    /\ emitted = << >>
    /\ calls = 0

\* No Trace is under analysis.
NoTrace ==
    /\ trace = << >>
    /\ pc = "idle"
    /\ cursor = 0
    /\ stack = << >>
    /\ out = << >>
    /\ stack_distances = << >>
    /\ infinities = 0
    /\ frequencies = << >>

\* Spec: one TraceIter::new(trace_size), advanced by repeated next() calls.
Init ==
    /\ trace_size \in 0 .. MaxN
    /\ next = TraceIterNew(trace_size)
    /\ ret = None
    /\ emitted = << >>
    /\ calls = 0
    /\ NoTrace

Next == NextCall /\ UNCHANGED tracevars

Spec == Init /\ [][Next]_vars

\* The symbols of the analysed traces: the small ones and the largest one.
Symbols == (0 .. MaxSym) \cup {SymMax}

Traces == UNION { [1 .. len -> Symbols] : len \in 0 .. MaxLen }

\* SpecTrace: Trace::from(an arbitrary vector), analysed as compare does.
InitTrace ==
    /\ trace \in Traces
    /\ pc = "stack_distance"
    /\ cursor = 0
    /\ stack = << >>
    /\ out = Repeat(Some(0), Len(trace))
    /\ stack_distances = << >>
    /\ infinities = 0
    /\ frequencies = << >>
    /\ NoIter

NextTrace ==
    /\ \/ StackDistanceStep
       \/ StackDistanceHistogramCall
       \/ FrequencyHistogramCall
       \/ Compare
    /\ UNCHANGED itervars

SpecTrace == InitTrace /\ [][NextTrace]_vars

\* ------------------------------------------------------------ properties
\* A restricted growth string: s[0] = 0 and s[i] <= 1 + max(s[0..i)).
IsRGS(s) ==
    /\ Len(s) >= 1 => At(s, 0) = 0
    /\ \A i \in Indices(s) :
         i > 0 => \E j \in 0 .. (i - 1) : At(s, i) <= 1 + At(s, j)

\* All restricted growth strings of length n.
RGS(n) == { s \in [1 .. n -> 0 .. (n - 1)] : IsRGS(s) }

\* Stirling numbers of the second kind and the Bell numbers.
RECURSIVE Stirling(_, _)
Stirling(n, k) ==
    IF n = 0 THEN (IF k = 0 THEN 1 ELSE 0)
    ELSE IF k = 0 THEN 0
    ELSE k * Stirling(n - 1, k) + Stirling(n - 1, k - 1)

RECURSIVE SumTo(_, _)
SumTo(n, k) == IF k < 0 THEN 0 ELSE Stirling(n, k) + SumTo(n, k - 1)

Bell(n) == SumTo(n, n)

RECURSIVE SumSeq(_)
SumSeq(s) == IF s = << >> THEN 0 ELSE s[1] + SumSeq(Tail(s))

\* C1: once TraceIter::new(n) is exhausted, the set of the traces it
\* returned is the set of all restricted growth strings of length n, which
\* has B(n) elements.
C1_EmitsEveryCanonicalTrace ==
    next = None =>
        /\ Range(emitted) = RGS(trace_size)
        /\ Cardinality(Range(emitted)) = Bell(trace_size)

\* C2: no two calls of next() on one TraceIter return the same trace.
C2_NoTraceEmittedTwice ==
    \A j, k \in 1 .. Len(emitted) : emitted[j] = emitted[k] => j = k

\* C3: the first B(n) calls of next() return a trace and call B(n) + 1
\* returns None, so the enumerator is exhausted after exactly B(n) traces.
C3_ExhaustedAfterBellTraces ==
    /\ (calls >= 1 /\ calls <= Bell(trace_size)) => IsSome(ret)
    /\ calls > Bell(trace_size) =>
         /\ ret = None
         /\ next = None
         /\ Len(emitted) = Bell(trace_size)

\* C4: for n >= 1 the buffer, the trace a call returns and every trace
\* returned before are restricted growth strings.
C4_BufferAndTracesAreRGS ==
    trace_size >= 1 =>
        /\ IsSome(next) => IsRGS(Unwrap(next))
        /\ IsSome(ret) => IsRGS(Unwrap(ret))
        /\ \A k \in 1 .. Len(emitted) : IsRGS(emitted[k])

\* A step wrote a fresh symbol into the buffer of a TraceIter::new(4), and
\* the call returned the trace before it.
C4_Witness ==
    /\ trace_size = 4
    /\ ret = Some(<< 0, 1, 1, 1 >>)
    /\ next = Some(<< 0, 1, 1, 2 >>)

Set3 == { << 0, 0, 0 >>, << 0, 0, 1 >>, << 0, 1, 0 >>, << 0, 1, 1 >>,
          << 0, 1, 2 >> }

Set4 == { << 0, 0, 0, 0 >>, << 0, 0, 0, 1 >>, << 0, 0, 1, 0 >>,
          << 0, 0, 1, 1 >>, << 0, 0, 1, 2 >>, << 0, 1, 0, 0 >>,
          << 0, 1, 0, 1 >>, << 0, 1, 0, 2 >>, << 0, 1, 1, 0 >>,
          << 0, 1, 1, 1 >>, << 0, 1, 1, 2 >>, << 0, 1, 2, 0 >>,
          << 0, 1, 2, 1 >>, << 0, 1, 2, 2 >>, << 0, 1, 2, 3 >> }

\* The traces returned by the first k calls, k capped at the number the
\* set holds, are k different members of the set, and every later call
\* returns None.
EmitsExactly(S) ==
    /\ Range(emitted) \subseteq S
    /\ calls <= Cardinality(S) =>
         /\ Len(emitted) = calls
         /\ Cardinality(Range(emitted)) = calls
         /\ calls >= 1 => IsSome(ret)
    /\ calls > Cardinality(S) =>
         /\ Range(emitted) = S
         /\ Len(emitted) = Cardinality(S)
         /\ ret = None

\* C5: TraceIter::new(3) returns exactly the 5 traces of Set3 and
\* TraceIter::new(4) exactly the 15 traces of Set4, and then None.
C5_ExactSetsForThreeAndFour ==
    /\ trace_size = 3 => EmitsExactly(Set3)
    /\ trace_size = 4 => EmitsExactly(Set4)

\* The 16th call on TraceIter::new(4) returned None after the 15 traces.
C5_Witness ==
    /\ trace_size = 4
    /\ calls = 16
    /\ ret = None
    /\ Range(emitted) = Set4

\* C6: the first call of next() on TraceIter::new(n) returns the all-zero
\* trace of length n.
C6_FirstTraceIsAllZero ==
    /\ calls = 1 => ret = Some(Repeat(0, trace_size))
    /\ calls >= 1 =>
         /\ Len(emitted) >= 1
         /\ Len(emitted[1]) = trace_size
         /\ \A k \in 1 .. trace_size : emitted[1][k] = 0

\* The first call on TraceIter::new(5) has returned and moved the buffer on.
C6_Witness ==
    /\ trace_size = 5
    /\ calls = 1
    /\ ret = Some(<< 0, 0, 0, 0, 0 >>)
    /\ next = Some(<< 0, 0, 0, 0, 1 >>)

\* stack_distance has returned: out is its result.
Returned == pc \in { "frequency_histogram", "compare", "done", "panic" }

\* frequency_histogram has returned: frequencies is its result.
Counted == pc \in { "compare", "done" }

\* The positions before i that hold the symbol of position i.
Earlier(t, i) == { j \in 0 .. (i - 1) : At(t, j) = At(t, i) }

\* The distinct symbols strictly between the most recent earlier occurrence
\* of the symbol of position i and position i.
Between(t, i) ==
    LET last == CHOOSE j \in Earlier(t, i) : \A k \in Earlier(t, i) : k <= j
    IN { At(t, k) : k \in (last + 1) .. (i - 1) }

\* C7: the result of stack_distance() is as long as the trace; entry i is
\* None iff the symbol of position i does not occur before i, and otherwise
\* it is the number of distinct symbols accessed since the symbol's most
\* recent earlier access.
C7_StackDistanceIsReuseDistance ==
    Returned =>
        /\ Len(out) = Len(trace)
        /\ \A i \in Indices(trace) :
             /\ At(out, i) = None <=> Earlier(trace, i) = {}
             /\ Earlier(trace, i) # {} =>
                  At(out, i) = Some(Cardinality(Between(trace, i)))

\* stack_distance returned for [1, 2, 3, 1], whose last access has two
\* distinct symbols since the first.
C7_Witness ==
    /\ pc = "done"
    /\ trace = << 1, 2, 3, 1 >>
    /\ out = << None, None, None, Some(2) >>

\* C8: the infinite count of stack_distance_histogram() is the number of
\* strictly positive entries of frequency_histogram(), which is the number
\* of distinct symbols of the trace.
C8_InfinitiesAreDistinctSymbols ==
    /\ Returned => infinities = Cardinality(Range(trace))
    /\ Counted =>
         /\ infinities =
              Cardinality({ k \in 1 .. Len(frequencies) : frequencies[k] > 0 })
         /\ Cardinality({ k \in 1 .. Len(frequencies) : frequencies[k] > 0 })
              = Cardinality(Range(trace))

\* Both histograms returned for a non-canonical trace with a gap and a
\* repeated symbol.
C8_Witness ==
    /\ pc = "done"
    /\ trace = << 2, 0, 2 >>
    /\ infinities = 2
    /\ frequencies = << 1, 0, 2 >>

\* C9: the counts of stack_distance_histogram() and its infinite count add
\* up to the length of the trace, and so do the entries of
\* frequency_histogram().
C9_HistogramTotals ==
    /\ Returned => SumSeq(stack_distances) + infinities = Len(trace)
    /\ Counted => SumSeq(frequencies) = Len(trace)

\* Both histograms returned for a trace with finite and infinite distances.
C9_Witness ==
    /\ pc = "done"
    /\ trace = << 1, 2, 1, 1, 1 >>
    /\ SumSeq(stack_distances) = 3
    /\ infinities = 2
    /\ SumSeq(frequencies) = 5

\* The positions of the trace whose stack distance is d.
PositionsAt(d) == { i \in Indices(out) : At(out, i) = Some(d) }

\* C10: the count array of stack_distance_histogram() is empty when no
\* access has a finite distance and otherwise one longer than the largest
\* finite distance; entry d is the number of positions at distance d, so a
\* non-empty array ends in a non-zero entry.
C10_CountArrayIsDense ==
    Returned =>
        /\ (\A i \in Indices(out) : At(out, i) = None) =>
             stack_distances = << >>
        /\ \A i \in Indices(out) :
             IsSome(At(out, i)) => Unwrap(At(out, i)) < Len(stack_distances)
        /\ \A d \in Indices(stack_distances) :
             At(stack_distances, d) = Cardinality(PositionsAt(d))
        /\ stack_distances # << >> =>
             /\ PositionsAt(Len(stack_distances) - 1) # {}
             /\ stack_distances[Len(stack_distances)] # 0

\* The histogram of a trace whose only finite distance is 2: the entries
\* for the distances 0 and 1 are zero.
C10_Witness ==
    /\ Returned
    /\ trace = << 1, 2, 3, 1 >>
    /\ stack_distances = << 0, 0, 1 >>

\* The result of stack_distance_histogram() for the trace t, once returned.
HistogramOf(t, counts, infinite) ==
    (Returned /\ trace = t) =>
        (stack_distances = counts /\ infinities = infinite)

\* C11 as stated: the histograms of [1,2,3], [1,1,1], [1,2,1,1,1] and
\* [1,2,3,1] are ([], 3), ([0,2], 1), ([2,1], 2) and ([0,0,1], 3).
C11_LiteralHistogramsAsStated ==
    /\ HistogramOf(<< 1, 2, 3 >>, << >>, 3)
    /\ HistogramOf(<< 1, 1, 1 >>, << 0, 2 >>, 1)
    /\ HistogramOf(<< 1, 2, 1, 1, 1 >>, << 2, 1 >>, 2)
    /\ HistogramOf(<< 1, 2, 3, 1 >>, << 0, 0, 1 >>, 3)

\* C11, amended: the histograms of [1,2,3], [1,1,1], [1,2,1,1,1] and
\* [1,2,3,1] are ([], 3), ([2], 1), ([2,1], 2) and ([0,0,1], 3).
C11_LiteralHistograms ==
    /\ HistogramOf(<< 1, 2, 3 >>, << >>, 3)
    /\ HistogramOf(<< 1, 1, 1 >>, << 2 >>, 1)
    /\ HistogramOf(<< 1, 2, 1, 1, 1 >>, << 2, 1 >>, 2)
    /\ HistogramOf(<< 1, 2, 3, 1 >>, << 0, 0, 1 >>, 3)

\* stack_distance_histogram returned for [1,1,1]: both repeats are at
\* distance 0.
C11_Witness ==
    /\ Returned
    /\ trace = << 1, 1, 1 >>
    /\ out = << None, Some(0), Some(0) >>
    /\ stack_distances = << 2 >>
    /\ infinities = 1

\* The positions of the trace t that hold the symbol v.
Holding(t, v) == { i \in Indices(t) : At(t, i) = v }

\* C12: frequency_histogram() returns an empty array for the empty trace
\* and otherwise an array one longer than the largest symbol, whose entry v
\* is the number of positions holding v.
C12_FrequencyIsDenseCount ==
    Counted =>
        /\ trace = << >> => frequencies = << >>
        /\ trace # << >> =>
             /\ \A i \in Indices(trace) : At(trace, i) < Len(frequencies)
             /\ \E i \in Indices(trace) :
                  At(trace, i) = Len(frequencies) - 1
        /\ \A v \in Indices(frequencies) :
             At(frequencies, v) = Cardinality(Holding(trace, v))

\* frequency_histogram returned for a trace that leaves the values 0 and 2
\* unused.
C12_Witness ==
    /\ Counted
    /\ trace = << 1, 3, 1, 1 >>
    /\ frequencies = << 0, 3, 0, 1 >>

\* C13: for n >= 1, frequency_histogram() of every trace that
\* TraceIter::new(n) returns has no entry below 1: the symbols used are
\* 0 .. k-1 without a gap.
C13_EmittedTracesHaveNoGap ==
    (trace_size >= 1 /\ IsSome(ret)) =>
        LET result == FrequencyHistogram(Unwrap(ret))
        IN /\ ~ result.panic
           /\ \A v \in Indices(result.freqs) : At(result.freqs, v) >= 1
           /\ Range(Unwrap(ret)) = Indices(result.freqs)

\* TraceIter::new(4) returned a trace with three symbols, one of them
\* repeated.
C13_Witness ==
    /\ trace_size = 4
    /\ ret = Some(<< 0, 1, 2, 1 >>)
    /\ FrequencyHistogram(Unwrap(ret)).freqs = << 1, 2, 1 >>

\* C14: once a call of next() has returned None, the next call returns None
\* as well and leaves the enumerator (exhausted, with the same traces
\* returned so far) as it was.
C14_ExhaustionIsAbsorbing ==
    [][ (calls >= 1 /\ ret = None) =>
          /\ next = None
          /\ ret' = None
          /\ next' = next
          /\ emitted' = emitted
          /\ trace_size' = trace_size ]_vars

\* TraceIter::new(3) was called twice more after the call that returned
\* None.
C14_Witness ==
    /\ trace_size = 3
    /\ calls = 8
    /\ ret = None
    /\ next = None
    /\ Len(emitted) = 5

\* The buffer before and after a call that left the enumerator unexhausted.
Old == Unwrap(next)
New == Unwrap(next')
Stepped == IsSome(next) /\ IsSome(next') /\ next' # next

\* The largest value of the buffer s before position i.
MaxBefore(s, i) == MaxOf({ At(s, j) : j \in 0 .. (i - 1) })

C16_StepIsIncrementAndReset ==
    [][ /\ Stepped =>
             \E i \in Indices(Old) :
                 /\ At(New, i) = At(Old, i) + 1
                 /\ \A j \in Indices(Old) :
                      /\ j < i => At(New, j) = At(Old, j)
                      /\ j > i => At(New, j) = 0
        /\ Stepped => Len(New) = Len(Old)
        /\ IsSome(next) => ret' = next ]_vars

\* A step added 1 at position 1 and reset the positions 2 and 3, which
\* held non-zero values.
C16_Witness ==
    /\ trace_size = 4
    /\ ret = Some(<< 0, 0, 1, 2 >>)
    /\ next = Some(<< 0, 1, 0, 0 >>)

\* s is lexicographically smaller than t (both of the same length).
LexLess(s, t) ==
    \E i \in Indices(s) :
        /\ At(s, i) < At(t, i)
        /\ \A j \in 0 .. (i - 1) : At(s, j) = At(t, j)

\* C17: for n >= 2 every trace returned is lexicographically greater than
\* the trace returned by the call before.
C17_EmittedInLexOrder ==
    trace_size >= 2 =>
        \A k \in 1 .. (Len(emitted) - 1) : LexLess(emitted[k], emitted[k + 1])

\* TraceIter::new(4) returned a trace whose successor came from a bump at
\* position 1 with a reset behind it.
C17_Witness ==
    /\ trace_size = 4
    /\ Len(emitted) >= 2
    /\ emitted[Len(emitted) - 1] = << 0, 0, 1, 2 >>
    /\ emitted[Len(emitted)] = << 0, 1, 0, 0 >>

\* [0, 1, ..., n-1]
AllDistinct(n) == [k \in 1 .. n |-> k - 1]

\* C18: for n >= 1, a call on an unexhausted enumerator whose scan advances
\* no position exhausts it (so no call leaves the buffer as it was), and
\* the call that exhausts it returns [0, 1, ..., n-1].
C18_ExhaustedAtAllDistinct ==
    [][ (trace_size >= 1 /\ IsSome(next)) =>
          /\ next' # next
          /\ next' = None => ret' = Some(AllDistinct(trace_size)) ]_vars

\* The last position before the cursor that holds the symbol v.
LastAccess(v) ==
    CHOOSE j \in 0 .. (cursor - 1) :
        /\ At(trace, j) = v
        /\ \A k \in 0 .. (cursor - 1) : At(trace, k) = v => k <= j

\* C19: after stack_distance() has processed position i, the stack holds
\* each distinct symbol of t[0..i] once, the more recently accessed nearer
\* the top, and t[i] on top.
C19_StackIsLRUOrder ==
    cursor >= 1 =>
        /\ Range(stack) = { At(trace, j) : j \in 0 .. (cursor - 1) }
        /\ Len(stack) = Cardinality(Range(stack))
        /\ stack[Len(stack)] = At(trace, cursor - 1)
        /\ \A a, b \in 1 .. Len(stack) :
             a < b => LastAccess(stack[a]) < LastAccess(stack[b])

\* The loop is at position 4 of [1, 2, 3, 1, 2]: the access of 1 moved it
\* from the bottom of the stack to the top.
C19_Witness ==
    /\ pc = "stack_distance"
    /\ trace = << 1, 2, 3, 1, 2 >>
    /\ cursor = 4
    /\ stack = << 2, 3, 1 >>

\* C20: frequency_histogram() and stack_distance_histogram() return for
\* every trace, the one holding the largest symbol value included: neither
\* panics on the size max + 1 or on an index.
C20_HistogramsAreTotal == pc # "panic"

====
